---------------------------- MODULE Spec2Model ----------------------------
(***************************************************************************)
(* Model of the EBK registration ledger (src/server.js): the freshness and *)
(* signature gate, the three signed operations /ebk/birth, /ebk/transfer   *)
(* and /ebk/verify, and the three tables births, transfers and audit.      *)
(*                                                                         *)
(* A handler runs synchronously up to its first await, so the gate and the *)
(* issue of the first query are one step; each awaited query is one step   *)
(* that executes the statement in the store (or fails) and resumes the     *)
(* handler up to its next await or its response.                           *)
(***************************************************************************)
EXTENDS Integers, Sequences, FiniteSets, TLC

(***************************************************************************)
(* Bounds of the model.                                                    *)
(***************************************************************************)
NumReq == 2        \* requests received in one behaviour
MaxTicks == 1      \* seconds the server clock advances in one behaviour
T0 == 1000         \* the clock when the first request arrives
MaxLen == 1        \* longest field value of the signature inputs
FreshSpan == 2     \* timestamps examined beyond the window, on each side

(***************************************************************************)
(* Program constants.                                                      *)
(***************************************************************************)
Window == 300      \* enforceFresh: 5 minutes

API_SECRET == <<"s">>              \* process.env.API_SECRET
Delim == <<"|">>

(***************************************************************************)
(* State.                                                                  *)
(***************************************************************************)
VARIABLES
    now,          \* the wall clock, in seconds (Date.now() / 1000)
    births,       \* table births: the rows in insertion order
    transfers,    \* table transfers
    audit,        \* table audit
    pc,           \* per request: where its handler is
    req,          \* per request: the operation and the body received
    created_at,   \* per birth request: the local created_at
    resp,         \* per request: the responses sent
    queries,      \* per request: the pool.query calls made and their results
    overlap,      \* whether a request has arrived while another was in flight
    fx            \* inputs and result of a function evaluated on its own

vars == <<now, births, transfers, audit, pc, req, created_at, resp, queries, overlap, fx>>

tables == <<births, transfers, audit>>

(***************************************************************************)
(* JavaScript values: undefined, null, strings (sequences of characters)   *)
(* and numbers.                                                            *)
(***************************************************************************)
UNDEF == <<"undef">>
NULL == <<"null">>
Str(s) == <<"str", s>>
Num(n) == <<"num", n>>

IsStr(v) == v[1] = "str"
IsNum(v) == v[1] = "num"

\* ToBoolean
Truthy(v) ==
    \/ IsStr(v) /\ v[2] # <<>>
    \/ IsNum(v) /\ v[2] # 0

\* a || d
Or(v, d) == IF Truthy(v) THEN v ELSE d

\* Math.abs
Abs(x) == IF x < 0 THEN -x ELSE x

DigitChars == <<"0", "1", "2", "3", "4", "5", "6", "7", "8", "9">>

RECURSIVE NatDigits(_)
NatDigits(n) ==
    IF n < 10 THEN <<DigitChars[n + 1]>>
    ELSE NatDigits(n \div 10) \o <<DigitChars[(n % 10) + 1]>>

\* Number.prototype.toString for integers
NumToString(n) == IF n < 0 THEN <<"-">> \o NatDigits(-n) ELSE NatDigits(n)

DigitValue(c) == CHOOSE d \in 0..9 : DigitChars[d + 1] = c

RECURSIVE ParseNat(_)
ParseNat(s) ==
    IF s = <<>> THEN 0
    ELSE 10 * ParseNat(SubSeq(s, 1, Len(s) - 1)) + DigitValue(s[Len(s)])

\* Number(v) for the values the handlers pass it: a number, or a string of
\* decimal digits
ToNumber(v) == IF IsNum(v) THEN v[2] ELSE ParseNat(v[2])

\* String(v), as Array.prototype.join and template literals apply it to a
\* defined value
JsString(v) == IF IsNum(v) THEN NumToString(v[2]) ELSE v[2]

\* Array.prototype.join("|"): undefined and null elements become ""
JoinElem(v) == IF v = UNDEF \/ v = NULL THEN <<>> ELSE JsString(v)

RECURSIVE Join(_)
Join(vals) ==
    IF vals = <<>> THEN <<>>
    ELSE IF Len(vals) = 1 THEN JoinElem(vals[1])
    ELSE JoinElem(vals[1]) \o Delim \o Join(Tail(vals))

(***************************************************************************)
(* The digest.  md5 is modelled as an injective function of its input: the *)
(* input string behind a marker that no input character equals.            *)
(***************************************************************************)
md5(s) == <<"#">> \o s

\* `${ts}|${core}|${API_SECRET}`
SignedString(ts, core) ==
    NumToString(ts) \o Delim \o core \o Delim \o API_SECRET

\* an expected digest computed from the server clock instead of ts
verifySigFromClock(ts, core, sig) ==
    md5(NumToString(now) \o Delim \o core \o Delim \o API_SECRET) = sig

verifySig(ts, core, sig) ==
    LET expect == md5(SignedString(ts, core))
    IN  expect = sig

(***************************************************************************)
(* Request bodies.  A body is the parsed JSON object; a field the client   *)
(* left out reads as undefined.                                            *)
(***************************************************************************)
BirthBody(cert_id, dna_hash, owner, kit_sid) ==
    [ts |-> UNDEF, sig |-> UNDEF, kit_sid |-> kit_sid, cert_id |-> cert_id,
     cert_ts |-> Num(990), p1 |-> Str(<<"p">>), p2 |-> Str(<<"q">>),
     gen |-> Num(3), tier |-> UNDEF, dna_hash |-> dna_hash, owner |-> owner]

TransferBody(sid, from_owner, to_owner) ==
    [ts |-> UNDEF, sig |-> UNDEF, sid |-> sid, from_owner |-> from_owner,
     to_owner |-> to_owner]

VerifyBody(cert_id, dna_hash) ==
    [ts |-> UNDEF, sig |-> UNDEF, cert_id |-> cert_id, dna_hash |-> dna_hash]

\* lines 73, 118, 145: Number(b.ts || 0)
TsOf(b) == ToNumber(Or(b.ts, Num(0)))

\* lines 74, 119, 146: String(b.sig || "")
SigOf(b) == JsString(Or(b.sig, Str(<<>>)))

\* lines 76-78, 121, 148: the signed fields of each operation, in order
BirthFields(b) ==
    <<b.cert_id, b.cert_ts, b.p1, b.p2, b.gen, b.tier, b.dna_hash, b.owner>>

TransferFields(b) == <<b.sid, b.from_owner, b.to_owner>>

VerifyFields(b) == <<b.cert_id, b.dna_hash>>

BirthCore(b) == Join(BirthFields(b))

TransferCore(b) == Join(TransferFields(b))

VerifyCore(b) == Join(VerifyFields(b))

CoreOf(op, b) ==
    CASE op = "birth" -> BirthCore(b)
      [] op = "transfer" -> TransferCore(b)
      [] op = "verify" -> VerifyCore(b)

\* What a client holding the secret sends: the body with ts, and the digest
\* computed for the timestamp sts (sts = ts for a correctly signed request).
Signed(op, b, ts, sts) ==
    [b EXCEPT !.ts = Num(ts), !.sig = Str(md5(SignedString(sts, CoreOf(op, b))))]

OldTs == T0 - Window          \* fresh at T0, stale from T0 + 1 on

C1id == Str(<<"c">>)
C2id == Str(<<"d">>)
H1 == Str(<<"h">>)
H2 == Str(<<"g">>)
O1 == Str(<<"o">>)
O2 == Str(<<"u">>)
K1 == Str(<<"k">>)
K2 == Str(<<"j">>)
S1 == Str(<<"x">>)

BirthA == BirthBody(C1id, H1, O1, K1)
BirthB == BirthBody(C1id, H2, O2, K2)        \* same identifier, other fields
BirthC == BirthBody(C2id, UNDEF, O1, K1)     \* no dna hash
BirthD == BirthBody(Str(<<>>), H1, O1, K1)   \* empty identifier

BirthRequests ==
    {Signed("birth", b, T0, T0) : b \in {BirthA, BirthB, BirthC, BirthD}}
    \cup {Signed("birth", BirthA, OldTs, OldTs), Signed("birth", BirthA, OldTs, T0)}

TransferA == TransferBody(S1, O1, O2)

TransferRequests ==
    {Signed("transfer", TransferA, T0, T0), Signed("transfer", TransferA, OldTs, OldTs),
     Signed("transfer", TransferA, OldTs, T0)}

VerifyA == VerifyBody(C1id, H1)
VerifyB == VerifyBody(C1id, UNDEF)
VerifyC == VerifyBody(C2id, H1)
VerifyD == VerifyBody(UNDEF, UNDEF)

VerifyRequests ==
    {Signed("verify", b, T0, T0) : b \in {VerifyA, VerifyB, VerifyC, VerifyD}}
    \cup {Signed("verify", VerifyA, OldTs, OldTs), Signed("verify", VerifyA, OldTs, T0)}

(***************************************************************************)
(* The initial state and the gate.                                         *)
(***************************************************************************)
Reqs == 1..NumReq

NoReq == [op |-> "none"]
NoFx == [fn |-> "none"]

InitStore ==
    /\ births = <<>>
    /\ transfers = <<>>
    /\ audit = <<>>
    /\ pc = [p \in Reqs |-> "idle"]
    /\ req = [p \in Reqs |-> NoReq]
    /\ created_at = [p \in Reqs |-> 0]
    /\ resp = [p \in Reqs |-> <<>>]
    /\ queries = [p \in Reqs |-> <<>>]
    /\ overlap = FALSE

Init ==
    /\ now = T0
    /\ InitStore
    /\ fx = NoFx

\* a window that only bounds timestamps in the future
enforceFreshFutureOnly(ts) == ts - now <= Window

\* a window that excludes its ends
enforceFreshExclusive(ts) == Abs(now - ts) < Window

\* lines 24-26, with now() of line 18
enforceFresh(ts) == Abs(now - ts) <= Window

\* bad(res, reason)
bad(reason) == [status |-> 400, ok |-> FALSE, reason |-> reason]

\* requests are numbered in the order they arrive
Arrives(p) ==
    /\ pc[p] = "idle"
    /\ \A q \in Reqs : q < p => pc[q] # "idle"
    /\ overlap' = (overlap \/ \E q \in Reqs : pc[q] \notin {"idle", "done"})

\* a gate whose verifier joins the fields in another order than the issuer
GateSwapped(op, b) ==
    LET ts == TsOf(b)
        sig == SigOf(b)
        core == CASE op = "birth" ->
                       Join(<<b.cert_id, b.cert_ts, b.p2, b.p1, b.gen, b.tier,
                              b.dna_hash, b.owner>>)
                  [] op = "transfer" -> Join(<<b.sid, b.to_owner, b.from_owner>>)
                  [] op = "verify" -> Join(<<b.dna_hash, b.cert_id>>)
    IN  IF ~enforceFresh(ts) THEN "stale ts"
        ELSE IF ~verifySig(ts, core, sig) THEN "bad sig"
        ELSE "pass"

\* lines 73-74, 80-81: the gate shared by the three handlers; the response
\* it sends, or "pass"
Gate(op, b) ==
    LET ts == TsOf(b)
        sig == SigOf(b)
        core == CoreOf(op, b)
    IN  IF ~enforceFresh(ts) THEN "stale ts"
        ELSE IF ~verifySig(ts, core, sig) THEN "bad sig"
        ELSE "pass"

\* a rejection that is written to the audit table first
RejectAudited(p, op, b, reason) ==
    /\ req' = [req EXCEPT ![p] = [op |-> op, b |-> b]]
    /\ resp' = [resp EXCEPT ![p] = Append(@, bad(reason))]
    /\ pc' = [pc EXCEPT ![p] = "done"]
    /\ audit' = Append(audit, [event |-> op, payload |-> b, ts |-> now])
    /\ queries' = [queries EXCEPT ![p] =
           Append(@, [stmt |-> "insert audit", ok |-> TRUE, rows |-> 1])]
    /\ UNCHANGED <<now, births, transfers, created_at, fx>>

\* lines 20-22, 80-81: the handler answers 400 with the reason and returns
Reject(p, op, b, reason) ==
    /\ req' = [req EXCEPT ![p] = [op |-> op, b |-> b]]
    /\ resp' = [resp EXCEPT ![p] = Append(@, bad(reason))]
    /\ pc' = [pc EXCEPT ![p] = "done"]
    /\ UNCHANGED <<now, tables, created_at, queries, fx>>

(***************************************************************************)
(* The store.  A parameter that is undefined or null is sent as NULL; a    *)
(* TEXT column holds the text of the value.  BIGSERIAL ids are left out:   *)
(* the position of a row in its table stands for its id.                   *)
(***************************************************************************)
SqlText(v) == IF v = UNDEF \/ v = NULL THEN NULL ELSE Str(JsString(v))

\* lines 91-102: the parameters of the births insert
BirthRow(b, created) ==
    [kit_sid    |-> SqlText(Or(b.kit_sid, NULL)),
     p1_sid     |-> SqlText(Or(b.p1, NULL)),
     p2_sid     |-> SqlText(Or(b.p2, NULL)),
     gen        |-> ToNumber(Or(b.gen, Num(0))),
     tier       |-> ToNumber(Or(b.tier, Num(0))),
     dna_hash   |-> SqlText(Or(b.dna_hash, NULL)),
     cert_id    |-> SqlText(Or(b.cert_id, NULL)),
     cert_ts    |-> ToNumber(Or(b.cert_ts, Num(0))),
     owner_uuid |-> SqlText(Or(b.owner, NULL)),
     created_at |-> created]

\* a uniqueness constraint over the whole row instead of cert_id
ConflictsWholeRow(table, row) == \E i \in 1..Len(table) : table[i] = row

\* cert_id TEXT UNIQUE (line 43): two rows conflict when their cert_id are
\* equal and not NULL; NULLs are distinct from each other
Conflicts(table, row) ==
    \E i \in 1..Len(table) :
        table[i].cert_id # NULL /\ table[i].cert_id = row.cert_id

\* an insert that does not skip on conflict
InsertBirthAlways(table, row) == Append(table, row)

\* an insert that overwrites the row it conflicts with
InsertBirthUpsert(table, row) ==
    IF Conflicts(table, row)
    THEN [i \in 1..Len(table) |->
             IF table[i].cert_id = row.cert_id THEN row ELSE table[i]]
    ELSE Append(table, row)

\* INSERT INTO births ... ON CONFLICT (cert_id) DO NOTHING (lines 87-90)
InsertBirth(table, row) ==
    IF Conflicts(table, row) THEN table ELSE Append(table, row)

\* SELECT * FROM births WHERE cert_id=$1 LIMIT 1 (line 155)
SelectBirth(table, param) ==
    LET key == SqlText(param)
        hits == {i \in 1..Len(table) : key # NULL /\ table[i].cert_id = key}
    IN  IF hits = {} THEN <<>>
        ELSE <<table[CHOOSE i \in hits : \A j \in hits : i <= j]>>

\* the row as the driver hands it to the handler: TEXT as a string, INT as a
\* number, BIGINT as a decimal string, NULL as null
RowToJs(r) ==
    [kit_sid    |-> r.kit_sid,
     p1_sid     |-> r.p1_sid,
     p2_sid     |-> r.p2_sid,
     gen        |-> Num(r.gen),
     tier       |-> Num(r.tier),
     dna_hash   |-> r.dna_hash,
     cert_id    |-> r.cert_id,
     cert_ts    |-> Str(NumToString(r.cert_ts)),
     owner_uuid |-> r.owner_uuid,
     created_at |-> Str(NumToString(r.created_at))]

\* lines 128-129: the parameters of the transfers insert
TransferRow(b, ts) ==
    [sid        |-> SqlText(Or(b.sid, NULL)),
     from_owner |-> SqlText(Or(b.from_owner, NULL)),
     to_owner   |-> SqlText(Or(b.to_owner, NULL)),
     ts         |-> ts]

\* lines 106-107, 133-134: the parameters of the audit insert
AuditRow(event, b, ts) == [event |-> event, payload |-> b, ts |-> ts]

\* a pool.query call that has settled: resolved (ok) with its row count, or
\* rejected
Query(stmt, ok, rows) == [stmt |-> stmt, ok |-> ok, rows |-> rows]

(***************************************************************************)
(* POST /ebk/birth                                                         *)
(***************************************************************************)
\* lines 72-86: the gate, created_at, and the births insert is issued
BirthRequest(p) ==
    /\ Arrives(p)
    /\ \E b \in BirthRequests :
        LET g == Gate("birth", b)
        IN  IF g # "pass" THEN Reject(p, "birth", b, g)
            ELSE /\ req' = [req EXCEPT ![p] = [op |-> "birth", b |-> b]]
                 /\ created_at' = [created_at EXCEPT ![p] = now]
                 /\ pc' = [pc EXCEPT ![p] = "birth_insert"]
                 /\ UNCHANGED <<now, tables, resp, queries, fx>>

\* lines 86-105: the births insert completes, the audit insert is issued
BirthInsert(p) ==
    /\ pc[p] = "birth_insert"
    /\ LET row == BirthRow(req[p].b, created_at[p])
           after == InsertBirth(births, row)
       IN  /\ births' = after
           /\ queries' = [queries EXCEPT ![p] =
                  Append(@, Query("insert births", TRUE, Len(after) - Len(births)))]
    /\ pc' = [pc EXCEPT ![p] = "birth_audit"]
    /\ UNCHANGED <<now, transfers, audit, req, created_at, resp, fx, overlap>>

\* an audit entry written only when the births insert added a row
BirthAuditSkipNoop(p) ==
    /\ pc[p] = "birth_audit"
    /\ audit' = IF queries[p][1].rows = 1
                THEN Append(audit, AuditRow("birth", req[p].b, created_at[p]))
                ELSE audit
    /\ queries' = [queries EXCEPT ![p] = Append(@, Query("insert audit", TRUE, 1))]
    /\ resp' = [resp EXCEPT ![p] = Append(@, [status |-> 200, ok |-> TRUE])]
    /\ pc' = [pc EXCEPT ![p] = "done"]
    /\ UNCHANGED <<now, births, transfers, req, created_at, fx, overlap>>

\* lines 105-110: the audit insert completes, the response is sent
BirthAudit(p) ==
    /\ pc[p] = "birth_audit"
    /\ audit' = Append(audit, AuditRow("birth", req[p].b, created_at[p]))
    /\ queries' = [queries EXCEPT ![p] = Append(@, Query("insert audit", TRUE, 1))]
    /\ resp' = [resp EXCEPT ![p] = Append(@, [status |-> 200, ok |-> TRUE])]
    /\ pc' = [pc EXCEPT ![p] = "done"]
    /\ UNCHANGED <<now, births, transfers, req, created_at, fx, overlap>>

(***************************************************************************)
(* POST /ebk/transfer                                                      *)
(***************************************************************************)
\* lines 117-127: the gate, and the transfers insert is issued
TransferRequest(p) ==
    /\ Arrives(p)
    /\ \E b \in TransferRequests :
        LET g == Gate("transfer", b)
        IN  IF g # "pass" THEN Reject(p, "transfer", b, g)
            ELSE /\ req' = [req EXCEPT ![p] = [op |-> "transfer", b |-> b]]
                 /\ pc' = [pc EXCEPT ![p] = "transfer_insert"]
                 /\ UNCHANGED <<now, tables, created_at, resp, queries, fx>>

\* an insert that skips a row the table already holds
TransferInsertDedup(p) ==
    /\ pc[p] = "transfer_insert"
    /\ LET row == TransferRow(req[p].b, TsOf(req[p].b))
       IN  transfers' = IF \E i \in 1..Len(transfers) : transfers[i] = row
                        THEN transfers ELSE Append(transfers, row)
    /\ queries' = [queries EXCEPT ![p] = Append(@, Query("insert transfers", TRUE, 1))]
    /\ created_at' = [created_at EXCEPT ![p] = now]
    /\ pc' = [pc EXCEPT ![p] = "transfer_audit"]
    /\ UNCHANGED <<now, births, audit, req, resp, fx, overlap>>

\* lines 127-132: the transfers insert completes; the audit insert is issued
\* with the clock read at that moment
TransferInsert(p) ==
    /\ pc[p] = "transfer_insert"
    /\ LET ts == TsOf(req[p].b)
       IN  transfers' = Append(transfers, TransferRow(req[p].b, ts))
    /\ queries' = [queries EXCEPT ![p] = Append(@, Query("insert transfers", TRUE, 1))]
    /\ created_at' = [created_at EXCEPT ![p] = now]
    /\ pc' = [pc EXCEPT ![p] = "transfer_audit"]
    /\ UNCHANGED <<now, births, audit, req, resp, fx, overlap>>

\* an audit insert after which the handler returns without answering
TransferAuditNoReply(p) ==
    /\ pc[p] = "transfer_audit"
    /\ audit' = Append(audit, AuditRow("transfer", req[p].b, created_at[p]))
    /\ queries' = [queries EXCEPT ![p] = Append(@, Query("insert audit", TRUE, 1))]
    /\ pc' = [pc EXCEPT ![p] = "done"]
    /\ UNCHANGED <<now, births, transfers, req, created_at, resp, fx, overlap>>

\* lines 132-137: the audit insert completes, the response is sent
TransferAudit(p) ==
    /\ pc[p] = "transfer_audit"
    /\ audit' = Append(audit, AuditRow("transfer", req[p].b, created_at[p]))
    /\ queries' = [queries EXCEPT ![p] = Append(@, Query("insert audit", TRUE, 1))]
    /\ resp' = [resp EXCEPT ![p] = Append(@, [status |-> 200, ok |-> TRUE])]
    /\ pc' = [pc EXCEPT ![p] = "done"]
    /\ UNCHANGED <<now, births, transfers, req, created_at, fx, overlap>>

(***************************************************************************)
(* POST /ebk/verify                                                        *)
(***************************************************************************)
\* lines 144-154: the gate, and the select is issued
VerifyRequest(p) ==
    /\ Arrives(p)
    /\ \E b \in VerifyRequests :
        LET g == Gate("verify", b)
        IN  IF g # "pass" THEN Reject(p, "verify", b, g)
            ELSE /\ req' = [req EXCEPT ![p] = [op |-> "verify", b |-> b]]
                 /\ pc' = [pc EXCEPT ![p] = "verify_select"]
                 /\ UNCHANGED <<now, tables, created_at, resp, queries, fx>>

\* a comparison that does not excuse a stored hash that is null
VerifyResultStrict(b, rows) ==
    IF Len(rows) = 0 THEN [status |-> 200, ok |-> FALSE, reason |-> "not found"]
    ELSE LET row == RowToJs(rows[1])
         IN  IF Truthy(b.dna_hash) /\ b.dna_hash # row.dna_hash
             THEN [status |-> 200, ok |-> FALSE, reason |-> "dna mismatch"]
             ELSE [status |-> 200, ok |-> TRUE, record |-> row]

\* lines 159-165: the response for the rows the select returned
VerifyResult(b, rows) ==
    IF Len(rows) = 0 THEN [status |-> 200, ok |-> FALSE, reason |-> "not found"]
    ELSE LET row == RowToJs(rows[1])
         IN  IF Truthy(b.dna_hash) /\ Truthy(row.dna_hash) /\ b.dna_hash # row.dna_hash
             THEN [status |-> 200, ok |-> FALSE, reason |-> "dna mismatch"]
             ELSE [status |-> 200, ok |-> TRUE, record |-> row]

\* a lookup that is recorded in the audit table
VerifySelectAudited(p) ==
    /\ pc[p] = "verify_select"
    /\ LET rows == SelectBirth(births, req[p].b.cert_id)
       IN  /\ queries' = [queries EXCEPT ![p] =
                  Append(@, Query("select births", TRUE, Len(rows)))]
           /\ resp' = [resp EXCEPT ![p] = Append(@, VerifyResult(req[p].b, rows))]
    /\ audit' = Append(audit, AuditRow("verify", req[p].b, now))
    /\ pc' = [pc EXCEPT ![p] = "done"]
    /\ UNCHANGED <<now, births, transfers, req, created_at, fx, overlap>>

\* lines 154-165: the select completes, the response is sent
VerifySelect(p) ==
    /\ pc[p] = "verify_select"
    /\ LET rows == SelectBirth(births, req[p].b.cert_id)
       IN  /\ queries' = [queries EXCEPT ![p] =
                  Append(@, Query("select births", TRUE, Len(rows)))]
           /\ resp' = [resp EXCEPT ![p] = Append(@, VerifyResult(req[p].b, rows))]
    /\ pc' = [pc EXCEPT ![p] = "done"]
    /\ UNCHANGED <<now, tables, req, created_at, fx, overlap>>

(***************************************************************************)
(* Storage faults and the clock.                                           *)
(***************************************************************************)
Awaiting == [birth_insert |-> "insert births", birth_audit |-> "insert audit",
             transfer_insert |-> "insert transfers", transfer_audit |-> "insert audit",
             verify_select |-> "select births"]

\* a failed ledger insert that is swallowed: the handler goes on to the audit
\* insert
QueryFailsSwallowed(p) ==
    /\ pc[p] \in DOMAIN Awaiting
    /\ queries' = [queries EXCEPT ![p] = Append(@, Query(Awaiting[pc[p]], FALSE, 0))]
    /\ IF pc[p] \in {"birth_insert", "transfer_insert"}
       THEN /\ pc' = [pc EXCEPT ![p] =
                     IF pc[p] = "birth_insert" THEN "birth_audit" ELSE "transfer_audit"]
            /\ UNCHANGED resp
       ELSE /\ pc' = [pc EXCEPT ![p] = "done"]
            /\ resp' = [resp EXCEPT ![p] = Append(@, bad("db error"))]
    /\ UNCHANGED <<now, tables, req, created_at, fx, overlap>>

RemoveAt(seq, i) == SubSeq(seq, 1, i - 1) \o SubSeq(seq, i + 1, Len(seq))

\* a failed audit insert that takes the request's ledger row back
QueryFailsRollback(p) ==
    /\ pc[p] \in DOMAIN Awaiting
    /\ queries' = [queries EXCEPT ![p] = Append(@, Query(Awaiting[pc[p]], FALSE, 0))]
    /\ resp' = [resp EXCEPT ![p] = Append(@, bad("db error"))]
    /\ pc' = [pc EXCEPT ![p] = "done"]
    /\ births' =
          IF pc[p] = "birth_audit" /\ queries[p][1].rows = 1
          THEN LET row == BirthRow(req[p].b, created_at[p])
               IN  RemoveAt(births, CHOOSE i \in 1..Len(births) : births[i] = row)
          ELSE births
    /\ transfers' =
          IF pc[p] = "transfer_audit"
          THEN LET row == TransferRow(req[p].b, TsOf(req[p].b))
               IN  RemoveAt(transfers, CHOOSE i \in 1..Len(transfers) : transfers[i] = row)
          ELSE transfers
    /\ UNCHANGED <<now, audit, req, created_at, fx, overlap>>

\* lines 111-113, 138-140, 166-168: the awaited query rejects; the statement
\* has no effect and the catch block answers
QueryFails(p) ==
    /\ pc[p] \in DOMAIN Awaiting
    /\ queries' = [queries EXCEPT ![p] = Append(@, Query(Awaiting[pc[p]], FALSE, 0))]
    /\ resp' = [resp EXCEPT ![p] = Append(@, bad("db error"))]
    /\ pc' = [pc EXCEPT ![p] = "done"]
    /\ UNCHANGED <<now, tables, req, created_at, fx, overlap>>

\* line 18: the clock does not go back
Tick ==
    /\ now < T0 + MaxTicks
    /\ now' = now + 1
    /\ UNCHANGED <<tables, pc, req, created_at, resp, queries, overlap, fx>>

Next ==
    \/ \E p \in Reqs : BirthRequest(p)
    \/ \E p \in Reqs : BirthInsert(p)
    \/ \E p \in Reqs : BirthAudit(p)
    \/ \E p \in Reqs : TransferRequest(p)
    \/ \E p \in Reqs : TransferInsert(p)
    \/ \E p \in Reqs : TransferAudit(p)
    \/ \E p \in Reqs : VerifyRequest(p)
    \/ \E p \in Reqs : VerifySelect(p)
    \/ \E p \in Reqs : QueryFails(p)
    \/ Tick

Spec == Init /\ [][Next]_vars

\* the store answers the query request p awaits: it completes or it fails
StoreAnswers(p) ==
    \/ BirthInsert(p)
    \/ BirthAudit(p)
    \/ TransferInsert(p)
    \/ TransferAudit(p)
    \/ VerifySelect(p)
    \/ QueryFails(p)

\* every awaited query is eventually answered; arrivals and the clock are
\* under no obligation
SpecLive == Spec /\ \A p \in Reqs : WF_vars(StoreAnswers(p))

(***************************************************************************)
(* enforceFresh on its own: the clock and the claimed timestamp are drawn  *)
(* around the two ends of the window; a body without ts is among them.     *)
(***************************************************************************)
FreshNows == {Window, Window + 1, T0}

FreshBodies(n) ==
    {[ts |-> UNDEF]}
    \cup {[ts |-> Num(t)] : t \in (n - Window - FreshSpan)..(n + Window + FreshSpan)}

InitFresh ==
    /\ now \in FreshNows
    /\ InitStore
    /\ fx \in {[fn |-> "enforceFresh", b |-> b, done |-> FALSE, out |-> FALSE] :
                  b \in FreshBodies(now)}

\* lines 73, 80: enforceFresh(Number(b.ts || 0))
EvalFresh ==
    /\ fx.fn = "enforceFresh"
    /\ ~fx.done
    /\ fx' = [fx EXCEPT !.done = TRUE, !.out = enforceFresh(TsOf(fx.b))]
    /\ UNCHANGED <<now, tables, pc, req, created_at, resp, queries, overlap>>

NextFresh == EvalFresh

SpecFresh == InitFresh /\ [][NextFresh]_vars

(***************************************************************************)
(* verifySig on its own: a client signs body a at ts; the server is handed *)
(* body b with the ts and sig of that request.                             *)
(***************************************************************************)
Alphabet == {"a", "|"}

Strings(n) == UNION {[1..k -> Alphabet] : k \in 0..n}

SigBodies(op) ==
    LET V == {Str(x) : x \in Strings(MaxLen)}
    IN  CASE op = "birth" ->
               {[BirthA EXCEPT !.p1 = x, !.p2 = y, !.owner = z] : x \in V, y \in V, z \in V}
          [] op = "transfer" -> {TransferBody(x, y, z) : x \in V, y \in V, z \in V}
          [] op = "verify" -> {VerifyBody(x, y) : x \in V, y \in V}

FieldsOf(op, b) ==
    CASE op = "birth" -> BirthFields(b)
      [] op = "transfer" -> TransferFields(b)
      [] op = "verify" -> VerifyFields(b)

InitSig ==
    /\ now = T0
    /\ InitStore
    /\ \E op \in {"birth", "transfer", "verify"} :
         fx \in {[fn |-> "verifySig", op |-> op, a |-> Signed(op, a, T0, T0), b |-> b,
                  done |-> FALSE, out |-> FALSE] :
                     a \in SigBodies(op), b \in SigBodies(op)}

\* lines 73-81: the signature check of the request b with the ts and sig of a
EvalSig ==
    /\ fx.fn = "verifySig"
    /\ ~fx.done
    /\ LET r == [fx.b EXCEPT !.ts = fx.a.ts, !.sig = fx.a.sig]
       IN  fx' = [fx EXCEPT !.done = TRUE,
                            !.out = verifySig(TsOf(r), CoreOf(fx.op, r), SigOf(r))]
    /\ UNCHANGED <<now, tables, pc, req, created_at, resp, queries, overlap>>

NextSig == EvalSig

SpecSig == InitSig /\ [][NextSig]_vars

(***************************************************************************)
(* The births row on its own: two clients holding the secret each send a   *)
(* signed birth request to a server whose births table is empty.           *)
(***************************************************************************)
RowBodies ==
    LET V == {Str(x) : x \in Strings(MaxLen)}
    IN  {Signed("birth", [BirthA EXCEPT !.kit_sid = k, !.p1 = x, !.p2 = y], t, t) :
            k \in {K1, K2}, x \in V, y \in V, t \in {T0, OldTs - 1}}

InitRow ==
    /\ now = T0
    /\ InitStore
    /\ fx \in {[fn |-> "birthRow", a |-> a, b |-> b, done |-> FALSE, out |-> <<>>] :
                  a \in RowBodies, b \in RowBodies}

\* lines 72-103: the gate and the births insert, into an empty table
StoredBy(b) ==
    IF Gate("birth", b) = "pass" THEN InsertBirth(<<>>, BirthRow(b, now)) ELSE <<>>

EvalRow ==
    /\ fx.fn = "birthRow"
    /\ ~fx.done
    /\ fx' = [fx EXCEPT !.done = TRUE, !.out = <<StoredBy(fx.a), StoredBy(fx.b)>>]
    /\ UNCHANGED <<now, tables, pc, req, created_at, resp, queries, overlap>>

NextRow == EvalRow

SpecRow == InitRow /\ [][NextRow]_vars

(***************************************************************************)
(* Properties.                                                             *)
(***************************************************************************)
OK200 == [status |-> 200, ok |-> TRUE]

Answered(p) == pc[p] = "done"

\* answered with an admission error
Rejected(p) ==
    /\ resp[p] # <<>>
    /\ resp[p][1].status = 400
    /\ resp[p][1].reason \in {"stale ts", "bad sig"}

\* one of its queries was rejected by the store
Faulted(p) == \E i \in 1..Len(queries[p]) : ~queries[p][i].ok

\* a birth request that passed the gate
AdmittedBirth(p) == pc[p] # "idle" /\ req[p].op = "birth" /\ ~Rejected(p)

\* the rows of births whose cert_id column is c
CertRows(c) == {i \in 1..Len(births) : births[i].cert_id = c}

\* the requests whose births insert added a row
Effective(G) ==
    {p \in G : queries[p] # <<>> /\ queries[p][1].ok /\ queries[p][1].rows = 1}

\* the requests whose births insert completed without a fault
Completed(G) == {p \in G : queries[p] # <<>> /\ queries[p][1].ok}

\* C1: when the same admitted birth request, carrying a certificate
\* identifier, has been submitted k >= 2 times and none of the submissions
\* met a storage fault, births holds exactly one row for the identifier and
\* every submission was answered ok=true.
C1_BirthIdempotent ==
    \A G \in SUBSET Reqs :
        ( /\ Cardinality(G) >= 2
          /\ \A p \in G : Answered(p) /\ AdmittedBirth(p) /\ ~Faulted(p)
          /\ \A p \in G : Truthy(req[p].b.cert_id)
          /\ \A p, q \in G : req[p].b = req[q].b )
        => /\ \A p \in G : Cardinality(CertRows(req[p].b.cert_id)) = 1
           /\ \A p \in G : resp[p] = <<OK200>>

\* C1 witness: the same birth request submitted twice, one after the other,
\* both answered ok=true
C1_Witness ==
    /\ ~overlap
    /\ \E p, q \in Reqs :
        /\ p # q
        /\ Answered(p) /\ Answered(q)
        /\ AdmittedBirth(p) /\ AdmittedBirth(q)
        /\ req[p].b = req[q].b
        /\ Truthy(req[p].b.cert_id)
        /\ resp[p] = <<OK200>> /\ resp[q] = <<OK200>>
        /\ Cardinality(CertRows(req[p].b.cert_id)) = 1

\* the certificate identifiers carried by the admitted birth requests
CertIds == {req[p].b.cert_id : p \in {q \in Reqs : AdmittedBirth(q)}}

SameCert(c) == {p \in Reqs : AdmittedBirth(p) /\ req[p].b.cert_id = c}

\* C2: for the admitted birth requests carrying one certificate identifier,
\* however their steps interleave: the rows for the identifier are exactly
\* the inserts that took effect, at most one insert takes effect, and as soon
\* as one of the inserts has completed there is exactly one row.
C2_ConcurrentBirthOneRow ==
    \A c \in CertIds :
        Truthy(c) =>
            /\ Cardinality(CertRows(c)) = Cardinality(Effective(SameCert(c)))
            /\ Cardinality(Effective(SameCert(c))) <= 1
            /\ Completed(SameCert(c)) # {} => Cardinality(CertRows(c)) = 1

\* C2 witness: two birth requests with one identifier in flight together;
\* one insert took effect, the other was a no-op, one row is stored
C2_Witness ==
    /\ overlap
    /\ \E p, q \in Reqs :
        /\ p # q
        /\ Answered(p) /\ Answered(q)
        /\ AdmittedBirth(p) /\ AdmittedBirth(q)
        /\ req[p].b.cert_id = req[q].b.cert_id
        /\ Truthy(req[p].b.cert_id)
        /\ Effective({p, q}) = {p}
        /\ Completed({p, q}) = {p, q}
        /\ Cardinality(CertRows(req[p].b.cert_id)) = 1

\* C3: births holds at most one row per value of the cert_id column,
\* NULL (an absent or empty cert_id) included.
C3_OneRowPerCertId ==
    \A i, j \in 1..Len(births) :
        i # j => births[i].cert_id # births[j].cert_id

\* C4: a step that answers a request with 'stale ts' or 'bad sig' leaves
\* births, transfers and audit as they were, and the request has issued no
\* query before or in that step.
C4_AdmissionErrorsTouchNoStorage ==
    [][\A p \in Reqs :
          ( /\ resp'[p] # resp[p]
            /\ resp'[p][Len(resp'[p])].status = 400
            /\ resp'[p][Len(resp'[p])].reason \in {"stale ts", "bad sig"} )
          => /\ tables' = tables
             /\ queries[p] = <<>>
             /\ queries'[p] = <<>>]_vars

\* C4 witness: one request answered 'stale ts' and another 'bad sig'
C4_Witness ==
    \E p, q \in Reqs :
        /\ Rejected(p) /\ resp[p][1].reason = "stale ts"
        /\ Rejected(q) /\ resp[q][1].reason = "bad sig"
        /\ req[p].op # req[q].op

\* C5: a request built from other values of the signed fields, sent with the
\* ts and sig of a signed request, fails the signature check: two different
\* field tuples never produce the same signed string.
C5_SignatureBindsFields ==
    (fx.fn = "verifySig" /\ fx.done /\ FieldsOf(fx.op, fx.a) # FieldsOf(fx.op, fx.b))
    => ~fx.out

\* C5, the part the code keeps: a request that differs from the signed one in
\* exactly one signed field fails the signature check.
C5_SingleFieldChange ==
    ( /\ fx.fn = "verifySig"
      /\ fx.done
      /\ Cardinality({i \in 1..Len(FieldsOf(fx.op, fx.a)) :
                        FieldsOf(fx.op, fx.a)[i] # FieldsOf(fx.op, fx.b)[i]}) = 1 )
    => ~fx.out

\* the timestamp a catalogue request carries
SentTs(p) == req[p].b.ts[2]

\* the request p arrives in this step
Arriving(p) == pc[p] = "idle" /\ pc'[p] # "idle"

\* C6: the clock never goes back, so a request whose ts + 300 the clock has
\* passed stays expired; a request arriving expired is answered 'stale ts';
\* and a request passes the gate or is answered 'bad sig' only while
\* |now - ts| <= 300.
C6_NoReplayAfterExpiry ==
    [][ /\ now' >= now
        /\ \A p \in Reqs :
              (pc[p] # "idle" /\ now > SentTs(p) + Window) => now' > SentTs(p) + Window
        /\ \A p \in Reqs :
              Arriving(p) =>
                 /\ now > SentTs(p)' + Window => resp'[p] = <<bad("stale ts")>>
                 /\ resp'[p] # <<bad("stale ts")>> =>
                       (now - SentTs(p)' <= Window /\ SentTs(p)' - now <= Window) ]_vars

\* C6 witness: one signed request, accepted while fresh and, sent again after
\* its expiry, answered 'stale ts'
C6_Witness ==
    \E p, q \in Reqs :
        /\ pc[p] # "idle" /\ pc[q] # "idle"
        /\ req[p] = req[q]
        /\ ~Rejected(p)
        /\ resp[q] = <<bad("stale ts")>>
        /\ now > SentTs(q) + Window

\* C7: enforceFresh applied to Number(b.ts || 0) is true exactly when the
\* timestamp, 0 when the body has none, lies in now - 300 .. now + 300.
C7_FreshIffWithinWindow ==
    (fx.fn = "enforceFresh" /\ fx.done) =>
        LET t == IF fx.b.ts = UNDEF THEN 0 ELSE fx.b.ts[2]
        IN  fx.out <=> (t \in (now - 300)..(now + 300))

\* C7 witness: a timestamp exactly 300 seconds ahead of the clock is fresh
C7_Witness ==
    /\ fx.fn = "enforceFresh"
    /\ fx.done
    /\ fx.b.ts = Num(now + 300)
    /\ fx.out

\* the request p carries the digest of its own ts, fields and the secret
ValidSig(p) ==
    req[p].b.sig = Str(md5(SignedString(SentTs(p), CoreOf(req[p].op, req[p].b))))

\* C8: an arriving request whose ts is outside the window is answered
\* 'stale ts' whatever its signature; inside the window it is answered
\* 'bad sig' exactly when its sig is not the digest for the ts it supplies,
\* at every value of the clock, and otherwise passes the gate.
C8_GateOrderAndTsBinding ==
    [][\A p \in Reqs :
          Arriving(p) =>
             LET stale == now - SentTs(p)' > Window \/ SentTs(p)' - now > Window
             IN  /\ stale => resp'[p] = <<bad("stale ts")>>
                 /\ (~stale /\ ~ValidSig(p)') => resp'[p] = <<bad("bad sig")>>
                 /\ (~stale /\ ValidSig(p)') => resp'[p] = <<>> ]_vars

\* C8 witness: a correctly signed request answered 'stale ts', while the
\* clock differs from its ts
C8_Witness ==
    \E p \in Reqs :
        /\ pc[p] = "done"
        /\ ValidSig(p)
        /\ resp[p] = <<bad("stale ts")>>

\* the verify request p gets its answer from the select in this step
VerifyAnswered(p) ==
    pc[p] = "verify_select" /\ pc'[p] = "done" /\ queries'[p][1].ok

\* the rows of births stored for the identifier the verify request p asks for
Found(p) ==
    {i \in 1..Len(births) :
        IsStr(req[p].b.cert_id) /\ births[i].cert_id = req[p].b.cert_id}

NonEmpty(v) == IsStr(v) /\ v[2] # <<>>

ReasonOf(r) == IF r.ok THEN "" ELSE r.reason

\* the answer is ok=true with the stored row i
VerifiedWith(r, i) == r.ok /\ r.record = RowToJs(births[i])

\* C9 as stated: 'not found' iff no record is stored for cert_id; 'dna
\* mismatch' iff a record is stored and the asserted and the stored hash are
\* both non-empty and differ; verified, with the stored record, iff a record
\* is stored and no hash was asserted or the asserted hash equals the stored
\* one.
C9_VerifyClassificationAsStated ==
    [][\A p \in Reqs :
          VerifyAnswered(p) =>
             LET r == resp'[p][1]
                 asserted == req[p].b.dna_hash
             IN  /\ (ReasonOf(r) = "not found") <=> (Found(p) = {})
                 /\ (ReasonOf(r) = "dna mismatch") <=>
                       \E i \in Found(p) :
                          /\ NonEmpty(asserted)
                          /\ NonEmpty(births[i].dna_hash)
                          /\ asserted # births[i].dna_hash
                 /\ r.ok <=>
                       \E i \in Found(p) :
                          ~NonEmpty(asserted) \/ asserted = births[i].dna_hash
                 /\ r.ok => \E i \in Found(p) : VerifiedWith(r, i) ]_vars

\* C9 amended: as stated, except that the request is verified also when the
\* stored hash is empty or null: verified iff a record is stored and no hash
\* was asserted, or the stored hash is empty, or the two are equal.  The
\* three answers are exhaustive and exclusive.
C9_VerifyClassification ==
    [][\A p \in Reqs :
          VerifyAnswered(p) =>
             LET r == resp'[p][1]
                 asserted == req[p].b.dna_hash
             IN  /\ (ReasonOf(r) = "not found") <=> (Found(p) = {})
                 /\ (ReasonOf(r) = "dna mismatch") <=>
                       \E i \in Found(p) :
                          /\ NonEmpty(asserted)
                          /\ NonEmpty(births[i].dna_hash)
                          /\ asserted # births[i].dna_hash
                 /\ r.ok <=>
                       \E i \in Found(p) :
                          \/ ~NonEmpty(asserted)
                          \/ ~NonEmpty(births[i].dna_hash)
                          \/ asserted = births[i].dna_hash
                 /\ r.ok => \E i \in Found(p) : VerifiedWith(r, i)
                 /\ r.ok \/ ReasonOf(r) \in {"not found", "dna mismatch"} ]_vars

\* C9 witness: a verify request asserting a hash, answered ok=true with a
\* stored record whose hash is null
C9_Witness ==
    \E p \in Reqs :
        /\ pc[p] = "done"
        /\ req[p].op = "verify"
        /\ NonEmpty(req[p].b.dna_hash)
        /\ resp[p] # <<>>
        /\ resp[p][1].ok
        /\ resp[p][1].record.dna_hash = NULL

\* the transfer requests whose transfers insert completed
TransferInserted ==
    {p \in Reqs : req[p].op = "transfer" /\ queries[p] # <<>> /\ queries[p][1].ok}

\* a parameter written as value || null
OrNull(v) == IF NonEmpty(v) THEN v ELSE NULL

\* C10: the transfers insert of an accepted request appends exactly one row
\* (sid, from_owner, to_owner, the request's ts), whatever the table holds;
\* no step removes or changes a row; and the table holds one row per
\* completed insert, so identical submissions are stored once each.
C10_TransferAppendsNoDedup ==
    [][ /\ Len(transfers') >= Len(transfers)
        /\ SubSeq(transfers', 1, Len(transfers)) = transfers
        /\ Len(transfers') = Cardinality(TransferInserted')
        /\ \A p \in Reqs :
              (pc[p] = "transfer_insert" /\ pc'[p] = "transfer_audit") =>
                 transfers' = Append(transfers,
                                 [sid        |-> OrNull(req[p].b.sid),
                                  from_owner |-> OrNull(req[p].b.from_owner),
                                  to_owner   |-> OrNull(req[p].b.to_owner),
                                  ts         |-> SentTs(p)]) ]_vars

\* C10 witness: two identical accepted transfer requests, two equal rows
C10_Witness ==
    \E p, q \in Reqs :
        /\ p # q
        /\ p \in TransferInserted /\ q \in TransferInserted
        /\ req[p] = req[q]
        /\ Len(transfers) = 2
        /\ transfers[1] = transfers[2]

\* the birth requests whose births insert added the row for identifier c
Writers(c) ==
    {q \in Reqs : /\ pc[q] # "idle"
                  /\ req[q].op = "birth"
                  /\ req[q].b.cert_id = c
                  /\ Effective({q}) = {q}}

\* the record r carries the attributes the birth request q sent
RecordOf(r, q) ==
    /\ r.kit_sid = OrNull(req[q].b.kit_sid)
    /\ r.p1_sid = OrNull(req[q].b.p1)
    /\ r.p2_sid = OrNull(req[q].b.p2)
    /\ r.gen = req[q].b.gen
    /\ r.dna_hash = OrNull(req[q].b.dna_hash)
    /\ r.cert_id = req[q].b.cert_id
    /\ r.cert_ts = Str(NumToString(req[q].b.cert_ts[2]))
    /\ r.owner_uuid = OrNull(req[q].b.owner)
    /\ r.created_at = Str(NumToString(created_at[q]))

AuditFailed(p) ==
    /\ pc[p] = "done"
    /\ req[p].op \in {"birth", "transfer"}
    /\ Len(queries[p]) = 2
    /\ queries[p][1].ok
    /\ ~queries[p][2].ok

\* the requests whose births insert added a row
BirthInserted ==
    {p \in Reqs : pc[p] # "idle" /\ req[p].op = "birth" /\ Effective({p}) = {p}}

\* the ledger row the write request p inserted is stored
LedgerRowKept(p) ==
    IF req[p].op = "birth"
    THEN \E i \in 1..Len(births) :
            /\ births[i].cert_id = OrNull(req[p].b.cert_id)
            /\ births[i].owner_uuid = OrNull(req[p].b.owner)
            /\ births[i].kit_sid = OrNull(req[p].b.kit_sid)
            /\ births[i].dna_hash = OrNull(req[p].b.dna_hash)
            /\ births[i].created_at = created_at[p]
    ELSE \E i \in 1..Len(transfers) :
            /\ transfers[i].sid = OrNull(req[p].b.sid)
            /\ transfers[i].from_owner = OrNull(req[p].b.from_owner)
            /\ transfers[i].to_owner = OrNull(req[p].b.to_owner)
            /\ transfers[i].ts = SentTs(p)

\* C12: an accepted birth or transfer whose ledger insert completed and whose
\* audit insert failed is answered ok=true.
C12_AuditFailureStillOk ==
    \A p \in Reqs : AuditFailed(p) => resp[p] = <<OK200>>

\* C13: when the audit insert of a request failed after its ledger insert
\* added a row, the row is stored in every later state: the tables hold one
\* row per insert that took effect, and the row of the request is among
\* them.
C13_AuditFailureKeepsLedgerRow ==
    \A p \in Reqs :
        (AuditFailed(p) /\ queries[p][1].rows = 1) =>
            /\ LedgerRowKept(p)
            /\ Len(births) = Cardinality(BirthInserted)
            /\ Len(transfers) = Cardinality(TransferInserted)

\* C13 witness: a birth whose audit insert failed, answered 'db error', with
\* its row stored
C13_Witness ==
    \E p \in Reqs :
        /\ AuditFailed(p)
        /\ req[p].op = "birth"
        /\ queries[p][1].rows = 1
        /\ resp[p] = <<bad("db error")>>
        /\ LedgerRowKept(p)

\* C14: every step of a verify request, whatever its answer, leaves births,
\* transfers and audit as they were; the only query it makes is the select,
\* and audit holds no entry of another kind than birth and transfer.
C14_VerifyReadOnly ==
    [][\A p \in Reqs :
          (pc'[p] # pc[p] /\ req'[p].op = "verify") =>
             /\ tables' = tables
             /\ \A i \in 1..Len(queries'[p]) : queries'[p][i].stmt = "select births"
             /\ \A i \in 1..Len(audit') : audit'[i].event \in {"birth", "transfer"} ]_vars

\* C14 witness: a verify request answered ok=true with a record, and no
\* audit entry written
C14_Witness ==
    \E p \in Reqs :
        /\ pc[p] = "done"
        /\ req[p].op = "verify"
        /\ resp[p] # <<>>
        /\ resp[p][1].ok
        /\ Len(births) = 1
        /\ audit = <<>>

\* the requests whose audit insert completed
AuditInserted ==
    {p \in Reqs : \E i \in 1..Len(queries[p]) :
                     queries[p][i].stmt = "insert audit" /\ queries[p][i].ok}

\* a write request that passed the gate, was answered, and met no fault
CleanWrite(p) ==
    /\ pc[p] = "done"
    /\ req[p].op \in {"birth", "transfer"}
    /\ ~Rejected(p)
    /\ ~Faulted(p)

\* C15 (the certificate identifier of a stored record is the text the store
\* keeps for the identifier sent, as in OrNull):
\* no step removes or changes an audit entry; the audit insert of a
\* birth or transfer appends one entry of its kind with the request body, and
\* is made only after the ledger insert completed, added row or not; a write
\* answered without a fault has made exactly that one audit insert; audit
\* holds one entry per completed audit insert; and each birth entry has a
\* stored record with its certificate identifier.
C15_AuditOncePerWrite ==
    [][ /\ Len(audit') >= Len(audit)
        /\ SubSeq(audit', 1, Len(audit)) = audit
        /\ Len(audit') = Cardinality(AuditInserted')
        /\ \A p \in Reqs :
              (pc[p] \in {"birth_audit", "transfer_audit"} /\ pc'[p] = "done"
                  /\ resp'[p] = <<OK200>>) =>
                 /\ queries[p][1].ok
                 /\ audit' = Append(audit, audit'[Len(audit')])
                 /\ audit'[Len(audit')].event = req[p].op
                 /\ audit'[Len(audit')].payload = req[p].b
        /\ \A p \in Reqs :
              CleanWrite(p)' =>
                 /\ Len(queries'[p]) = 2
                 /\ queries'[p][2].stmt = "insert audit"
                 /\ p \in AuditInserted'
        /\ \A i \in 1..Len(audit') :
              audit'[i].event = "birth" =>
                 \E j \in 1..Len(births') :
                    births'[j].cert_id = OrNull(audit'[i].payload.cert_id) ]_vars

\* C15 witness: a birth whose insert was a no-op, answered ok=true, with its
\* own audit entry beside the first writer's
C15_Witness ==
    \E p \in Reqs :
        /\ CleanWrite(p)
        /\ req[p].op = "birth"
        /\ queries[p][1].rows = 0
        /\ Len(births) = 1
        /\ Len(audit) = 2
        /\ audit[1].event = "birth" /\ audit[2].event = "birth"

\* the first query of request p, its ledger write or its lookup, fails in
\* this step
LedgerFaults(p) ==
    /\ queries[p] = <<>>
    /\ queries'[p] # <<>>
    /\ ~queries'[p][1].ok

\* C16: when the births insert, the transfers insert or the verify select of
\* an admitted request fails, the request is answered 'db error' and nothing
\* else, the failed statement is its only query (no retry, no audit insert),
\* and the step leaves the three tables as they were; audit holds entries
\* only for requests whose audit insert completed.
C16_LedgerFaultIsDbError ==
    [][ /\ \A p \in Reqs :
              LedgerFaults(p) =>
                 /\ resp'[p] = <<bad("db error")>>
                 /\ pc'[p] = "done"
                 /\ Len(queries'[p]) = 1
                 /\ tables' = tables
        /\ \A p \in Reqs :
              (queries[p] # <<>> /\ ~queries[p][1].ok) =>
                 /\ queries'[p] = queries[p]
                 /\ resp'[p] = resp[p]
                 /\ p \notin AuditInserted'
        /\ Len(audit') = Cardinality(AuditInserted') ]_vars

\* C16 witness: a births insert that failed, answered 'db error', while
\* another request's record is stored
C16_Witness ==
    \E p \in Reqs :
        /\ pc[p] = "done"
        /\ req[p].op = "birth"
        /\ Len(queries[p]) = 1
        /\ ~queries[p][1].ok
        /\ resp[p] = <<bad("db error")>>
        /\ Len(births) = 1

\* the digest an issuer computes for request r: ts, the fields of the
\* operation in the stated order, and the secret, joined by "|"
IssuerDigest(r) ==
    LET b == r.b
        fields == CASE r.op = "birth" ->
                         <<b.cert_id, b.cert_ts, b.p1, b.p2, b.gen, b.tier,
                           b.dna_hash, b.owner>>
                    [] r.op = "transfer" -> <<b.sid, b.from_owner, b.to_owner>>
                    [] r.op = "verify" -> <<b.cert_id, b.dna_hash>>
    IN  md5(NumToString(b.ts[2]) \o <<"|">> \o Join(fields) \o <<"|">> \o API_SECRET)

\* the stage of a request whose first query is in flight
FirstStage == [birth |-> "birth_insert", transfer |-> "transfer_insert",
               verify |-> "verify_select"]

\* C17: an arriving request whose sig is the issuer's digest and whose ts is
\* within 300 seconds of the clock is not answered by the gate and has its
\* first query issued; a birth or transfer that passed the gate and whose
\* queries all completed is answered ok=true, once.
C17_SignedFreshAdmitted ==
    [][ /\ \A p \in Reqs :
              (Arriving(p) /\ Abs(now - req'[p].b.ts[2]) <= 300
                  /\ req'[p].b.sig = Str(IssuerDigest(req'[p]))) =>
                 /\ resp'[p] = <<>>
                 /\ pc'[p] = FirstStage[req'[p].op]
        /\ \A p \in Reqs :
              (pc'[p] = "done" /\ req'[p].op \in {"birth", "transfer"}
                  /\ queries'[p] # <<>> /\ ~Faulted(p)') =>
                 resp'[p] = <<OK200>> ]_vars

\* C17 witness: a transfer carrying the issuer's digest, sent 300 seconds
\* after its ts, answered ok=true with its row stored
C17_Witness ==
    \E p \in Reqs :
        /\ pc[p] = "done"
        /\ req[p].op = "transfer"
        /\ req[p].b.sig = Str(IssuerDigest(req[p]))
        /\ req[p].b.ts[2] = OldTs
        /\ resp[p] = <<OK200>>
        /\ Len(transfers) = 1

\* the columns of a births row that are taken from the request
RequestColumns(r) ==
    <<r.kit_sid, r.p1_sid, r.p2_sid, r.gen, r.tier, r.dna_hash, r.cert_id,
      r.cert_ts, r.owner_uuid>>

\* C18: two admitted birth requests with the same ts and the same sig, each
\* inserted into an empty births table, store rows that agree on every
\* column taken from the request.
C18_StoredDataSigned ==
    (/\ fx.done
     /\ fx.out[1] # <<>>
     /\ fx.out[2] # <<>>
     /\ fx.a.ts = fx.b.ts
     /\ fx.a.sig = fx.b.sig) =>
        RequestColumns(fx.out[1][1]) = RequestColumns(fx.out[2][1])

\* the answers a handler can send
IsAnswer(r) ==
    \/ r.ok /\ r.status = 200
    \/ ~r.ok /\ r.status = 400 /\ r.reason \in {"stale ts", "bad sig", "db error"}
    \/ ~r.ok /\ r.status = 200 /\ r.reason \in {"not found", "dna mismatch"}

\* C19: under SpecLive every received request is eventually answered, with
\* one of the listed answers; no request ever has two responses, and a
\* response once sent is the request's last.
C19_AnsweredExactlyOnce ==
    /\ \A p \in Reqs :
          (pc[p] # "idle") ~>
             (pc[p] = "done" /\ Len(resp[p]) = 1 /\ IsAnswer(resp[p][1]))
    /\ [](\A p \in Reqs : Len(resp[p]) <= 1)
    /\ [][\A p \in Reqs : resp[p] # <<>> => resp'[p] = resp[p]]_vars

\* C19 witness: every request answered once, one with 'db error' after its
\* audit insert failed, one with ok=true
C19_Witness ==
    /\ \A p \in Reqs : pc[p] = "done" /\ Len(resp[p]) = 1
    /\ \E p \in Reqs : AuditFailed(p) /\ resp[p] = <<bad("db error")>>
    /\ \E p \in Reqs : resp[p] = <<OK200>>

=============================================================================
